---- MODULE Spec2Model ----
(***************************************************************************)
(* geoson: GeoJSON <-> FeatureCollection codec.                            *)
(*                                                                         *)
(* A file holds a JSON tree (or nothing, or text that is no JSON).  The    *)
(* JSON library's text form is not modelled: a file written by dump() and  *)
(* parsed again is the same tree.  Numbers are integers; the geographic    *)
(* <-> local projection of the geometry library is an exact bijection that *)
(* maps the datum to the origin and is never the identity.                 *)
(***************************************************************************)
EXTENDS Integers, Sequences, FiniteSets, TLC

VARIABLES disk, rd, wrote, built, call, streams

vars == <<disk, rd, wrote, built, call, streams>>

-----------------------------------------------------------------------------
(* JSON values (nlohmann::json)                                            *)

Null == [t |-> "null"]
Bool(b) == [t |-> "bool", b |-> b]
Num(n) == [t |-> "num", n |-> n]
Str(s) == [t |-> "str", s |-> s]
Arr(a) == [t |-> "arr", a |-> a]
Obj(o) == [t |-> "obj", o |-> o]

EmptyObj == Obj(<<>>)

\* outcome of a call: a value, or the exception that left it
OK(v) == [ok |-> TRUE, v |-> v]
Err(kind, what) == [ok |-> FALSE, kind |-> kind, what |-> what]

TypeError == Err("json::type_error", "[json.exception.type_error]")
OutOfRange == Err("json::out_of_range", "[json.exception.out_of_range]")
ParseError == Err("json::parse_error", "[json.exception.parse_error]")

\* the keys the documents of this model use, in std::map (lexicographic) order
KeyOrder ==
    <<"category", "coordinates", "crs", "datum", "features", "geometries",
      "geometry", "heading", "id", "name", "properties", "type">>

\* the rest of a call after a step that may throw
Bind(r, rest(_)) == IF r.ok THEN rest(r.v) ELSE r

\* the values of a sequence of outcomes, or its first failure, in order
Collect(rs) ==
    IF \A i \in 1..Len(rs) : rs[i].ok
    THEN OK([i \in 1..Len(rs) |-> rs[i].v])
    ELSE rs[CHOOSE i \in 1..Len(rs) :
                ~rs[i].ok /\ \A k \in 1..(i - 1) : rs[k].ok]

\* a loop whose body may throw: the results of the iterations, in order
ForEach(seq, body(_)) == Collect([i \in 1..Len(seq) |-> body(seq[i])])

RECURSIVE Flatten(_)
Flatten(ss) == IF ss = <<>> THEN <<>> ELSE Head(ss) \o Flatten(Tail(ss))

contains(j, key) == j.t = "obj" /\ key \in DOMAIN j.o

at_key(j, key) ==
    IF j.t # "obj" THEN TypeError
    ELSE IF key \notin DOMAIN j.o THEN OutOfRange
    ELSE OK(j.o[key])

\* json::at(idx), idx counted from 0
at_idx(j, idx) ==
    IF j.t # "arr" THEN TypeError
    ELSE IF idx >= Len(j.a) THEN OutOfRange
    ELSE OK(j.a[idx + 1])

\* get<double>() converting a boolean to 0 / 1, as get<int>() does
get_double_AcceptBool(j) ==
    IF j.t = "num" THEN OK(j.n)
    ELSE IF j.t = "bool" THEN OK(IF j.b THEN 1 ELSE 0)
    ELSE TypeError

\* get<double>(): the value of a number; for anything else, a boolean
\* included, type_error 302 ("type must be number")
get_double(j) == IF j.t = "num" THEN OK(j.n) ELSE TypeError

get_string(j) == IF j.t = "str" THEN OK(j.s) ELSE TypeError

\* json::value(key, default)
value(j, key, default) ==
    IF j.t # "obj" THEN TypeError
    ELSE IF key \in DOMAIN j.o THEN OK(j.o[key])
    ELSE OK(default)

\* the values of an object in key order
ObjValues(o) ==
    LET ks == SelectSeq(KeyOrder, LAMBDA k : k \in DOMAIN o)
    IN  [i \in 1..Len(ks) |-> o[ks[i]]]

ObjKeys(o) == SelectSeq(KeyOrder, LAMBDA k : k \in DOMAIN o)

\* json::size()
size(j) ==
    IF j.t = "null" THEN 0
    ELSE IF j.t = "arr" THEN Len(j.a)
    ELSE IF j.t = "obj" THEN Cardinality(DOMAIN j.o)
    ELSE 1

\* what a range-for over a json value visits: the elements of an array, the
\* values of an object, nothing for null, the value itself for a primitive
elements(j) ==
    IF j.t = "arr" THEN j.a
    ELSE IF j.t = "null" THEN <<>>
    ELSE IF j.t = "obj" THEN ObjValues(j.o)
    ELSE <<j>>

RECURSIVE JoinComma(_)
JoinComma(ss) ==
    IF ss = <<>> THEN ""
    ELSE IF Len(ss) = 1 THEN ss[1]
    ELSE ss[1] \o "," \o JoinComma(Tail(ss))

\* json::dump(): the compact JSON text of a value
RECURSIVE dump(_)
dump(j) ==
    IF j.t = "null" THEN "null"
    ELSE IF j.t = "bool" THEN (IF j.b THEN "true" ELSE "false")
    ELSE IF j.t = "num" THEN ToString(j.n)
    ELSE IF j.t = "str" THEN "\"" \o j.s \o "\""
    ELSE IF j.t = "arr" THEN
        "[" \o JoinComma([i \in 1..Len(j.a) |-> dump(j.a[i])]) \o "]"
    ELSE
        LET ks == ObjKeys(j.o)
        IN  "{" \o JoinComma([i \in 1..Len(ks) |->
                    "\"" \o ks[i] \o "\":" \o dump(j.o[ks[i]])]) \o "}"

-----------------------------------------------------------------------------
(* The geometry library (concord): datum, points, the two projections      *)

Datum(lat, lon, alt) == [lat |-> lat, lon |-> lon, alt |-> alt]
Euler(roll, pitch, yaw) == [roll |-> roll, pitch |-> pitch, yaw |-> yaw]
WGS(lat, lon, alt) == [lat |-> lat, lon |-> lon, alt |-> alt]
Point(x, y, z) == [x |-> x, y |-> y, z |-> z]

\* geographic -> local tangent plane: the datum maps to the origin, and the
\* east offset of a point depends on its latitude as well as its longitude
toENU(wgs, datum) ==
    Point((wgs.lon - datum.lon) + (wgs.lat - datum.lat),
          wgs.lat - datum.lat,
          wgs.alt - datum.alt)

\* local tangent plane -> geographic: the inverse of toENU
toWGS(p, datum) ==
    WGS(p.y + datum.lat, (p.x - p.y) + datum.lon, p.z + datum.alt)

\* the four stored geometry variants, each over its points
GPoint(p) == [kind |-> "Point", pts |-> <<p>>]
GLine(a, b) == [kind |-> "Line", pts |-> <<a, b>>]
GPath(pts) == [kind |-> "Path", pts |-> pts]
GPolygon(pts) == [kind |-> "Polygon", pts |-> pts]

Feature(geometry, properties) ==
    [geometry |-> geometry, properties |-> properties]

FeatureCollection(crs, datum, heading, features) ==
    [crs |-> crs, datum |-> datum, heading |-> heading, features |-> features]

-----------------------------------------------------------------------------
(* parser.hpp                                                              *)

NoFile == [t |-> "nofile"]
Garbage == [t |-> "garbage"]

MsgCannotOpen == "geoson::ReadFeatureCollection(): cannot open"
MsgNoType ==
    "geoson::ReadFeatureCollection(): top-level object has no string 'type' field"
MsgNoProperties == "missing top-level 'properties'"
MsgNoCrs == "'properties' missing string 'crs'"
\* the source writes the comparison sign as the single character U+2265
MsgNoDatum == "'properties' missing array 'datum' of >=3 numbers"
MsgNoHeading == "'properties' missing numeric 'heading'"
MsgUnknownCrs == "Unknown CRS string: "

RuntimeError(what) == Err("std::runtime_error", what)

\* op::ReadFeatureCollection without the check of the root's type field: a
\* root that has no string type is taken for a bare geometry
op_ReadFeatureCollection_NoTypeCheck(file) ==
    IF file = NoFile THEN RuntimeError(MsgCannotOpen)
    ELSE IF file = Garbage THEN ParseError
    ELSE IF contains(file, "type") /\ file.o["type"] = Str("FeatureCollection")
    THEN OK(file)
    ELSE IF contains(file, "type") /\ file.o["type"] = Str("Feature")
    THEN OK(Obj([type |-> Str("FeatureCollection"), features |-> Arr(<<file>>)]))
    ELSE OK(Obj([type |-> Str("FeatureCollection"),
                 features |-> Arr(<<Obj([type |-> Str("Feature"),
                                         geometry |-> file,
                                         properties |-> EmptyObj])>>)]))

\* op::ReadFeatureCollection without the Feature branch: a Feature root is
\* wrapped like a bare geometry
op_ReadFeatureCollection_NoFeatureBranch(file) ==
    IF file = NoFile THEN RuntimeError(MsgCannotOpen)
    ELSE IF file = Garbage THEN ParseError
    ELSE IF ~(file.t = "obj") \/ ~contains(file, "type")
            \/ ~(file.o["type"].t = "str")
    THEN RuntimeError(MsgNoType)
    ELSE IF file.o["type"].s = "FeatureCollection" THEN OK(file)
    ELSE OK(Obj([type |-> Str("FeatureCollection"),
                 features |-> Arr(<<Obj([type |-> Str("Feature"),
                                         geometry |-> file,
                                         properties |-> EmptyObj])>>)]))

\* op::ReadFeatureCollection giving the collection it synthesizes an empty
\* top-level properties object
op_ReadFeatureCollection_EmptyProperties(file) ==
    IF file = NoFile THEN RuntimeError(MsgCannotOpen)
    ELSE IF file = Garbage THEN ParseError
    ELSE IF ~(file.t = "obj") \/ ~contains(file, "type")
            \/ ~(file.o["type"].t = "str")
    THEN RuntimeError(MsgNoType)
    ELSE IF file.o["type"].s = "FeatureCollection" THEN OK(file)
    ELSE IF file.o["type"].s = "Feature"
    THEN OK(Obj([type |-> Str("FeatureCollection"), properties |-> EmptyObj,
                 features |-> Arr(<<file>>)]))
    ELSE OK(Obj([type |-> Str("FeatureCollection"), properties |-> EmptyObj,
                 features |-> Arr(<<Obj([type |-> Str("Feature"),
                                         geometry |-> file,
                                         properties |-> EmptyObj])>>)]))

\* op::ReadFeatureCollection lifting the properties of a Feature root to the
\* collection it synthesizes
op_ReadFeatureCollection_HoistProperties(file) ==
    IF file = NoFile THEN RuntimeError(MsgCannotOpen)
    ELSE IF file = Garbage THEN ParseError
    ELSE IF ~(file.t = "obj") \/ ~contains(file, "type")
            \/ ~(file.o["type"].t = "str")
    THEN RuntimeError(MsgNoType)
    ELSE IF file.o["type"].s = "FeatureCollection" THEN OK(file)
    ELSE IF file.o["type"].s = "Feature" /\ contains(file, "properties")
    THEN OK(Obj([type |-> Str("FeatureCollection"),
                 properties |-> file.o["properties"],
                 features |-> Arr(<<file>>)]))
    ELSE IF file.o["type"].s = "Feature"
    THEN OK(Obj([type |-> Str("FeatureCollection"), features |-> Arr(<<file>>)]))
    ELSE OK(Obj([type |-> Str("FeatureCollection"),
                 features |-> Arr(<<Obj([type |-> Str("Feature"),
                                         geometry |-> file,
                                         properties |-> EmptyObj])>>)]))

\* op::ReadFeatureCollection: open, parse, check the root, normalize
op_ReadFeatureCollection(file) ==
    IF file = NoFile THEN RuntimeError(MsgCannotOpen)
    ELSE IF file = Garbage THEN ParseError
    ELSE LET j == file IN
        IF ~(j.t = "obj") \/ ~contains(j, "type") \/ ~(j.o["type"].t = "str")
        THEN RuntimeError(MsgNoType)
        ELSE LET type == j.o["type"].s IN
            IF type = "FeatureCollection" THEN OK(j)
            ELSE IF type = "Feature" THEN
                OK(Obj([type |-> Str("FeatureCollection"),
                        features |-> Arr(<<j>>)]))
            ELSE
                LET feat == Obj([type |-> Str("Feature"),
                                 geometry |-> j,
                                 properties |-> EmptyObj])
                IN  OK(Obj([type |-> Str("FeatureCollection"),
                            features |-> Arr(<<feat>>)]))

\* json::items(): the (key, value) pairs a value is iterated as
ItemKeys(props) ==
    IF props.t = "obj" THEN DOMAIN props.o
    ELSE IF props.t = "arr" THEN {ToString(i - 1) : i \in 1..Len(props.a)}
    ELSE IF props.t = "null" THEN {}
    ELSE {""}

ItemValue(props, key) ==
    IF props.t = "obj" THEN props.o[key]
    ELSE IF props.t = "arr"
    THEN props.a[CHOOSE i \in 1..Len(props.a) : ToString(i - 1) = key]
    ELSE props

\* parseProperties serializing every value, strings included
parseProperties_DumpAll(props) ==
    [key \in ItemKeys(props) |-> dump(ItemValue(props, key))]

parseProperties(props) ==
    [key \in ItemKeys(props) |->
        LET v == ItemValue(props, key)
        IN  IF v.t = "str" THEN v.s ELSE dump(v)]

parsePoint(coords, datum) ==
    Bind(at_idx(coords, 0), LAMBDA c0 :
    Bind(get_double(c0), LAMBDA lon :
    Bind(at_idx(coords, 1), LAMBDA c1 :
    Bind(get_double(c1), LAMBDA lat :
    Bind(IF size(coords) > 2 THEN get_double(coords.a[3]) ELSE OK(0),
         LAMBDA alt :
    OK(toENU(WGS(lat, lon, alt), datum)))))))

\* lineOf that never builds a Line
lineOf_AlwaysPath(pts) == GPath(pts)

lineOf(pts) ==
    IF Len(pts) = 2 THEN GLine(pts[1], pts[2]) ELSE GPath(pts)

parseLineString(coords, datum) ==
    Bind(ForEach(elements(coords), LAMBDA c : parsePoint(c, datum)),
         LAMBDA pts : OK(lineOf(pts)))

\* parsePolygon decoding every ring before it keeps the first
parsePolygon_AllRings(coords, datum) ==
    Bind(at_idx(coords, 0), LAMBDA first :
    Bind(ForEach(elements(coords), LAMBDA ring :
            ForEach(elements(ring), LAMBDA c : parsePoint(c, datum))),
         LAMBDA rings : OK(GPolygon(rings[1]))))

parsePolygon(coords, datum) ==
    Bind(at_idx(coords, 0), LAMBDA ring :
    Bind(ForEach(elements(ring), LAMBDA c : parsePoint(c, datum)),
         LAMBDA pts : OK(GPolygon(pts))))

GeometryTypes ==
    {"Point", "LineString", "Polygon", "MultiPoint", "MultiLineString",
     "MultiPolygon", "GeometryCollection"}

RECURSIVE parseGeometry(_, _)
RECURSIVE parseGeometryOfType(_, _, _)

\* parseGeometryOfType appending the members of a GeometryCollection in
\* front of, not behind, what was decoded before
parseGeometryOfType_Reversed(type, geom, datum) ==
    IF type = "Point" THEN
        Bind(at_key(geom, "coordinates"), LAMBDA cs :
        Bind(parsePoint(cs, datum), LAMBDA p : OK(<<GPoint(p)>>)))
    ELSE IF type = "LineString" THEN
        Bind(at_key(geom, "coordinates"), LAMBDA cs :
        Bind(parseLineString(cs, datum), LAMBDA l : OK(<<l>>)))
    ELSE IF type = "Polygon" THEN
        Bind(at_key(geom, "coordinates"), LAMBDA cs :
        Bind(parsePolygon(cs, datum), LAMBDA g : OK(<<g>>)))
    ELSE IF type = "MultiPoint" THEN
        Bind(at_key(geom, "coordinates"), LAMBDA cs :
        Bind(ForEach(elements(cs), LAMBDA c : parsePoint(c, datum)),
             LAMBDA ps : OK([i \in 1..Len(ps) |-> GPoint(ps[i])])))
    ELSE IF type = "MultiLineString" THEN
        Bind(at_key(geom, "coordinates"), LAMBDA cs :
        ForEach(elements(cs), LAMBDA line : parseLineString(line, datum)))
    ELSE IF type = "MultiPolygon" THEN
        Bind(at_key(geom, "coordinates"), LAMBDA cs :
        ForEach(elements(cs), LAMBDA poly : parsePolygon(poly, datum)))
    ELSE IF type = "GeometryCollection" THEN
        Bind(at_key(geom, "geometries"), LAMBDA gs :
        Bind(ForEach(elements(gs), LAMBDA sub : parseGeometry(sub, datum)),
             LAMBDA subs :
                OK(Flatten([i \in 1..Len(subs) |-> subs[Len(subs) + 1 - i]]))))
    ELSE OK(<<>>)

\* the branch of parseGeometry for the geometry's type string
parseGeometryOfType(type, geom, datum) ==
    IF type = "Point" THEN
        Bind(at_key(geom, "coordinates"), LAMBDA cs :
        Bind(parsePoint(cs, datum), LAMBDA p : OK(<<GPoint(p)>>)))
    ELSE IF type = "LineString" THEN
        Bind(at_key(geom, "coordinates"), LAMBDA cs :
        Bind(parseLineString(cs, datum), LAMBDA l : OK(<<l>>)))
    ELSE IF type = "Polygon" THEN
        Bind(at_key(geom, "coordinates"), LAMBDA cs :
        Bind(parsePolygon(cs, datum), LAMBDA g : OK(<<g>>)))
    ELSE IF type = "MultiPoint" THEN
        Bind(at_key(geom, "coordinates"), LAMBDA cs :
        Bind(ForEach(elements(cs), LAMBDA c : parsePoint(c, datum)),
             LAMBDA ps : OK([i \in 1..Len(ps) |-> GPoint(ps[i])])))
    ELSE IF type = "MultiLineString" THEN
        Bind(at_key(geom, "coordinates"), LAMBDA cs :
        ForEach(elements(cs), LAMBDA line : parseLineString(line, datum)))
    ELSE IF type = "MultiPolygon" THEN
        Bind(at_key(geom, "coordinates"), LAMBDA cs :
        ForEach(elements(cs), LAMBDA poly : parsePolygon(poly, datum)))
    ELSE IF type = "GeometryCollection" THEN
        Bind(at_key(geom, "geometries"), LAMBDA gs :
        Bind(ForEach(elements(gs), LAMBDA sub : parseGeometry(sub, datum)),
             LAMBDA subs : OK(Flatten(subs))))
    ELSE OK(<<>>)

\* parseGeometry treating a type it does not know as an error
parseGeometry_RejectUnknown(geom, datum) ==
    Bind(at_key(geom, "type"), LAMBDA t0 :
    Bind(get_string(t0), LAMBDA type :
    IF type \notin GeometryTypes THEN RuntimeError("unknown geometry type")
    ELSE parseGeometryOfType(type, geom, datum)))

parseGeometry(geom, datum) ==
    Bind(at_key(geom, "type"), LAMBDA t0 :
    Bind(get_string(t0), LAMBDA type :
    parseGeometryOfType(type, geom, datum)))

\* parseCRS comparing without regard to case
parseCRS_IgnoreCase(s) ==
    IF s \in {"EPSG:4326", "epsg:4326", "WGS84", "wgs84", "WGS", "wgs"}
    THEN OK("WGS")
    ELSE IF s \in {"ENU", "enu", "ECEF", "ecef"} THEN OK("ENU")
    ELSE RuntimeError(MsgUnknownCrs \o s)

parseCRS(s) ==
    IF s = "EPSG:4326" \/ s = "WGS84" \/ s = "WGS" THEN OK("WGS")
    ELSE IF s = "ENU" \/ s = "ECEF" THEN OK("ENU")
    ELSE RuntimeError(MsgUnknownCrs \o s)

\* the feature loop without the null check: every raw feature is decoded
readFeature_NoSkip(feat, d) ==
    Bind(at_key(feat, "geometry"), LAMBDA g :
    Bind(parseGeometry(g, d), LAMBDA geoms :
    Bind(value(feat, "properties", EmptyObj), LAMBDA props :
    OK([i \in 1..Len(geoms) |-> Feature(geoms[i], parseProperties(props))]))))

\* the feature loop keeping only the first variant of every geometry
readFeature_FirstOnly(feat, d) ==
    Bind(value(feat, "geometry", Null), LAMBDA g :
    IF g.t = "null" THEN OK(<<>>) ELSE
    Bind(parseGeometry(g, d), LAMBDA geoms :
    Bind(value(feat, "properties", EmptyObj), LAMBDA props :
    OK([i \in 1..(IF Len(geoms) > 0 THEN 1 ELSE 0) |->
            Feature(geoms[i], parseProperties(props))]))))

\* the feature loop recovering from a feature that cannot be decoded: the
\* feature is left out and the loop goes on
readFeature_SkipBad(feat, d) ==
    Bind(value(feat, "geometry", Null), LAMBDA g :
    IF g.t = "null" \/ ~parseGeometry(g, d).ok THEN OK(<<>>) ELSE
    Bind(parseGeometry(g, d), LAMBDA geoms :
    Bind(value(feat, "properties", EmptyObj), LAMBDA props :
    OK([i \in 1..Len(geoms) |-> Feature(geoms[i], parseProperties(props))]))))

\* the body of the feature loop for one raw feature: the Features it adds
readFeature(feat, d) ==
    Bind(value(feat, "geometry", Null), LAMBDA g :
    IF g.t = "null" THEN OK(<<>>) ELSE
    Bind(parseGeometry(g, d), LAMBDA geoms :
    Bind(value(feat, "properties", EmptyObj), LAMBDA props :
    OK([i \in 1..Len(geoms) |-> Feature(geoms[i], parseProperties(props))]))))

\* the header checks with the heading checked before the datum
checkHeader_HeadingFirst(fc_json) ==
    IF ~contains(fc_json, "properties") \/ ~(fc_json.o["properties"].t = "obj")
    THEN RuntimeError(MsgNoProperties)
    ELSE IF ~contains(fc_json.o["properties"], "crs")
            \/ ~(fc_json.o["properties"].o["crs"].t = "str")
    THEN RuntimeError(MsgNoCrs)
    ELSE IF ~contains(fc_json.o["properties"], "heading")
            \/ ~(fc_json.o["properties"].o["heading"].t = "num")
    THEN RuntimeError(MsgNoHeading)
    ELSE IF ~contains(fc_json.o["properties"], "datum")
            \/ ~(fc_json.o["properties"].o["datum"].t = "arr")
            \/ size(fc_json.o["properties"].o["datum"]) < 3
    THEN RuntimeError(MsgNoDatum)
    ELSE OK(fc_json.o["properties"])

\* the header checks of the main loader, in their order
checkHeader(fc_json) ==
    IF ~contains(fc_json, "properties") \/ ~(fc_json.o["properties"].t = "obj")
    THEN RuntimeError(MsgNoProperties)
    ELSE IF ~contains(fc_json.o["properties"], "crs")
            \/ ~(fc_json.o["properties"].o["crs"].t = "str")
    THEN RuntimeError(MsgNoCrs)
    ELSE IF ~contains(fc_json.o["properties"], "datum")
            \/ ~(fc_json.o["properties"].o["datum"].t = "arr")
            \/ size(fc_json.o["properties"].o["datum"]) < 3
    THEN RuntimeError(MsgNoDatum)
    ELSE IF ~contains(fc_json.o["properties"], "heading")
            \/ ~(fc_json.o["properties"].o["heading"].t = "num")
    THEN RuntimeError(MsgNoHeading)
    ELSE OK(fc_json.o["properties"])

\* fc_json["features"] on a mutable object: null when the key is absent
featuresOf(fc_json) ==
    IF contains(fc_json, "features") THEN fc_json.o["features"] ELSE Null

\* the header of the normalized document: the checks, then crs, datum, heading
resolveHeader(fc_json) ==
    Bind(checkHeader(fc_json), LAMBDA P :
    Bind(parseCRS(P.o["crs"].s), LAMBDA crsVal :
    Bind(get_double(P.o["datum"].a[1]), LAMBDA d0 :
    Bind(get_double(P.o["datum"].a[2]), LAMBDA d1 :
    Bind(get_double(P.o["datum"].a[3]), LAMBDA d2 :
    OK([crs |-> crsVal, datum |-> Datum(d0, d1, d2),
        heading |-> Euler(0, 0, P.o["heading"].n)]))))))

\* the main loader keeping the first model it decoded in a static variable
\* and returning it from every later call
ReadFeatureCollection_Cached(file) ==
    IF \E q \in DOMAIN rd : rd[q] # [t |-> "notread"] /\ rd[q].res.ok
    THEN rd[CHOOSE q \in DOMAIN rd : rd[q] # [t |-> "notread"] /\ rd[q].res.ok].res
    ELSE
    Bind(op_ReadFeatureCollection(file), LAMBDA fc_json :
    Bind(resolveHeader(fc_json), LAMBDA h :
    Bind(ForEach(elements(featuresOf(fc_json)),
                 LAMBDA feat : readFeature(feat, h.datum)),
         LAMBDA added :
    OK(FeatureCollection(h.crs, h.datum, h.heading, Flatten(added))))))

\* the main loader decoding the features before it resolves the header
ReadFeatureCollection_FeaturesFirst(file) ==
    Bind(op_ReadFeatureCollection(file), LAMBDA fc_json :
    Bind(ForEach(elements(featuresOf(fc_json)),
                 LAMBDA feat : readFeature(feat, Datum(0, 0, 0))),
         LAMBDA early :
    Bind(resolveHeader(fc_json), LAMBDA h :
    Bind(ForEach(elements(featuresOf(fc_json)),
                 LAMBDA feat : readFeature(feat, h.datum)),
         LAMBDA added :
    OK(FeatureCollection(h.crs, h.datum, h.heading, Flatten(added)))))))

\* the main loader, on the content of the file it is given
ReadFeatureCollection(file) ==
    Bind(op_ReadFeatureCollection(file), LAMBDA fc_json :
    Bind(resolveHeader(fc_json), LAMBDA h :
    Bind(ForEach(elements(featuresOf(fc_json)),
                 LAMBDA feat : readFeature(feat, h.datum)),
         LAMBDA added :
    OK(FeatureCollection(h.crs, h.datum, h.heading, Flatten(added))))))

\* the streams of a caller: the process's standard output, and a string
\* stream of its own
StdCout == "std::cout"
Streams == {StdCout, "oss"}

\* the lines the loop of operator<< prints for one feature
featureLines(f) ==
    <<IF f.geometry.kind = "Polygon" THEN "  POLYGON"
      ELSE IF f.geometry.kind = "Line" THEN "  LINE"
      ELSE IF f.geometry.kind = "Path" THEN "  PATH"
      ELSE "   POINT">>
    \o (IF Cardinality(DOMAIN f.properties) > 0
        THEN <<"    PROPS:" \o ToString(Cardinality(DOMAIN f.properties))>>
        ELSE <<>>)

\* operator<<(os, m): what every stream of ss holds after the call.  The
\* header goes to os, the lines of the feature loop to std::cout
operator_shl(os, m, ss) ==
    [s \in DOMAIN ss |->
        ss[s]
        \o (IF s = os
            THEN <<"CRS: " \o m.crs,
                   "DATUM: " \o ToString(m.datum.lat) \o ", "
                       \o ToString(m.datum.lon) \o ", " \o ToString(m.datum.alt),
                   "HEADING: " \o ToString(m.heading.yaw),
                   "FEATURES: " \o ToString(Len(m.features))>>
            ELSE <<>>)
        \o (IF s = StdCout
            THEN Flatten([i \in 1..Len(m.features) |-> featureLines(m.features[i])])
            ELSE <<>>)]

-----------------------------------------------------------------------------
(* writter.hpp, geoson.hpp                                                 *)

MsgCannotWrite == "Cannot open for write: "

\* the paths std::ofstream cannot open: their directory does not exist
Unwritable == {"/nonexistent/directory/file.geojson"}

\* ptCoords without the ENU branch: every point is written as lon, lat, alt
ptCoords_AlwaysWGS(p, datum, crs) ==
    Arr(<<Num(toWGS(p, datum).lon), Num(toWGS(p, datum).lat),
          Num(toWGS(p, datum).alt)>>)

ptCoords(p, datum, crs) ==
    IF crs = "ENU" THEN Arr(<<Num(p.x), Num(p.y), Num(p.z)>>)
    ELSE LET wgs == toWGS(p, datum)
         IN  Arr(<<Num(wgs.lon), Num(wgs.lat), Num(wgs.alt)>>)

geometryToJson(geom, datum, crs) ==
    IF geom.kind = "Point" THEN
        Obj([type |-> Str("Point"),
             coordinates |-> ptCoords(geom.pts[1], datum, crs)])
    ELSE IF geom.kind = "Line" THEN
        Obj([type |-> Str("LineString"),
             coordinates |-> Arr(<<ptCoords(geom.pts[1], datum, crs),
                                   ptCoords(geom.pts[2], datum, crs)>>)])
    ELSE IF geom.kind = "Path" THEN
        Obj([type |-> Str("LineString"),
             coordinates |-> Arr([i \in 1..Len(geom.pts) |->
                                    ptCoords(geom.pts[i], datum, crs)])])
    ELSE
        Obj([type |-> Str("Polygon"),
             coordinates |-> Arr(<<Arr([i \in 1..Len(geom.pts) |->
                                    ptCoords(geom.pts[i], datum, crs)])>>)])

\* featureToJson writing the JSON text of every value, as dump() gives it
featureToJson_DumpValues(f, datum, crs) ==
    Obj([type |-> Str("Feature"),
         properties |-> Obj([k \in DOMAIN f.properties |->
                                Str(dump(Str(f.properties[k])))]),
         geometry |-> geometryToJson(f.geometry, datum, crs)])

featureToJson(f, datum, crs) ==
    Obj([type |-> Str("Feature"),
         properties |-> Obj([k \in DOMAIN f.properties |-> Str(f.properties[k])]),
         geometry |-> geometryToJson(f.geometry, datum, crs)])

\* the crs strings written as synonyms the decoder also accepts
crsString_Synonym(crs) == IF crs = "WGS" THEN "WGS84" ELSE "ECEF"

\* toJson writing the datum as [lon, lat, alt]
toJson_DatumLonLat(fc) ==
    Obj([type |-> Str("FeatureCollection"),
         properties |-> Obj([crs |-> Str(IF fc.crs = "WGS" THEN "EPSG:4326" ELSE "ENU"),
                             datum |-> Arr(<<Num(fc.datum.lon), Num(fc.datum.lat),
                                             Num(fc.datum.alt)>>),
                             heading |-> Num(fc.heading.yaw)]),
         features |-> Arr([i \in 1..Len(fc.features) |->
                            featureToJson(fc.features[i], fc.datum, fc.crs)])])

crsString(crs) == IF crs = "WGS" THEN "EPSG:4326" ELSE "ENU"

toJson(fc) ==
    Obj([type |-> Str("FeatureCollection"),
         properties |-> Obj([crs |-> Str(crsString(fc.crs)),
                             datum |-> Arr(<<Num(fc.datum.lat), Num(fc.datum.lon),
                                             Num(fc.datum.alt)>>),
                             heading |-> Num(fc.heading.yaw)]),
         features |-> Arr([i \in 1..Len(fc.features) |->
                            featureToJson(fc.features[i], fc.datum, fc.crs)])])

\* WriteFeatureCollection without the check of the opened stream
WriteFeatureCollection_NoCheck(fc, outPath) == OK(toJson(fc))

\* WriteFeatureCollection(fc, outPath): the exception of a path that cannot
\* be opened, or else the document the file holds afterwards
WriteFeatureCollection(fc, outPath) ==
    IF outPath \in Unwritable THEN RuntimeError(MsgCannotWrite \o outPath)
    ELSE OK(toJson(fc))

\* WriteFeatureCollection(fc, outPath, outputCrs): the overload geoson.hpp
\* calls; the document of fc in the requested flavor
WriteFeatureCollectionCrs(fc, outputCrs) ==
    Obj([type |-> Str("FeatureCollection"),
         properties |-> Obj([crs |-> Str(IF outputCrs = "WGS" THEN "EPSG:4326"
                                         ELSE "ENU"),
                             datum |-> Arr(<<Num(fc.datum.lat), Num(fc.datum.lon),
                                             Num(fc.datum.alt)>>),
                             heading |-> Num(fc.heading.yaw)]),
         features |-> Arr([i \in 1..Len(fc.features) |->
                            featureToJson(fc.features[i], fc.datum, outputCrs)])])

-----------------------------------------------------------------------------
(* The documents a caller may find on disk                                 *)

MaxFeatures == 2

Absent == [t |-> "absent"]

\* an object of the fields that are not Absent
MkObj(f) == Obj([k \in {k \in DOMAIN f : f[k] # Absent} |-> f[k]])

NumArr(ns) == Arr([i \in 1..Len(ns) |-> Num(ns[i])])

CrsStrings ==
    {"EPSG:4326", "WGS84", "WGS", "ENU", "ECEF",
     "", "epsg:4326", "wgs84", "enu", "UNKNOWN:12345"}

CrsOpts == {Absent, Num(123)} \cup {Str(s) : s \in CrsStrings}

DatumOpts ==
    {Absent, Str("invalid"), NumArr(<<52, 5>>), NumArr(<<52, 5, 0>>),
     NumArr(<<0, 0, 0>>), NumArr(<<52, 5, 100, 7>>),
     Arr(<<Str("a"), Num(5), Num(0)>>), Arr(<<Num(52), Null, Num(0)>>),
     Arr(<<Bool(TRUE), Num(5), Num(0)>>)}

HeadingOpts == {Absent, Str("invalid"), Num(45)}

PropsOpts ==
    {Absent, Str("invalid")} \cup
    {MkObj([crs |-> c, datum |-> d, heading |-> h]) :
        c \in CrsOpts, d \in DatumOpts, h \in HeadingOpts}

GoodProps ==
    {MkObj([crs |-> Str(c), datum |-> NumArr(<<52, 5, 0>>), heading |-> Num(45)]) :
        c \in {"EPSG:4326", "ENU"}}

TestProps ==
    MkObj([crs |-> Str("EPSG:4326"), datum |-> NumArr(<<52, 5, 100>>),
           heading |-> Num(45)])

PointGeom(ns) == Obj([type |-> Str("Point"), coordinates |-> NumArr(ns)])

RawFeature(geometry, properties) ==
    MkObj([type |-> Str("Feature"), geometry |-> geometry,
           properties |-> properties])

F_null == RawFeature(Null, Obj([name |-> Str("null_geom")]))
F_absent == RawFeature(Absent, Obj([name |-> Str("no_geom")]))
F_point == RawFeature(PointGeom(<<6, 53, 10>>), Obj([name |-> Str("valid_point")]))
F_point2 == RawFeature(PointGeom(<<7, 54>>), Absent)
F_line ==
    RawFeature(Obj([type |-> Str("LineString"),
                    coordinates |-> Arr(<<NumArr(<<5, 52, 0>>), NumArr(<<6, 52, 0>>)>>)]),
               Obj([name |-> Str("test_line"), category |-> Num(42)]))
F_multi ==
    RawFeature(Obj([type |-> Str("MultiPoint"),
                    coordinates |-> Arr(<<NumArr(<<5, 53>>), NumArr(<<4, 51, 1>>)>>)]),
               Obj([name |-> Str("multi")]))
F_bad == RawFeature(PointGeom(<<5>>), Obj([name |-> Str("bad")]))

\* the raw features every list up to MaxFeatures is drawn from
RawFeatures == {F_null, F_absent, F_point, F_line, F_bad}

FeatureLists ==
    UNION {[1..n -> RawFeatures] : n \in 0..MaxFeatures}

\* further feature lists, as the tests write them
FixtureLists ==
    {<<F_point2>>, <<F_multi>>, <<F_point2, F_null, F_multi>>,
     <<F_line, F_absent, F_point, F_point2>>,
     <<MkObj([type |-> Str("Feature"), id |-> Str("f1"),
              geometry |-> PointGeom(<<6, 53, 10>>),
              properties |-> Obj([name |-> Str("with_id")])]),
       F_point2,
       MkObj([type |-> Str("Feature"), id |-> Num(7),
              geometry |-> F_multi.o["geometry"], properties |-> EmptyObj])>>}

Collection(props, feats) ==
    MkObj([type |-> Str("FeatureCollection"), properties |-> props,
           features |-> Arr(feats)])

OtherRoots ==
    {Num(5), Null, Str("FeatureCollection"), Arr(<<>>),
     Arr(<<Collection(CHOOSE g \in GoodProps : TRUE, <<F_point>>)>>),
     Obj([features |-> Arr(<<>>)]),
     Obj([type |-> Num(123), features |-> Arr(<<>>)])}
    \cup {MkObj([type |-> t, properties |-> g, features |-> Arr(<<F_point>>)]) :
            t \in {Absent, Null, Num(123)}, g \in GoodProps}
    \cup {F_point, F_point2, F_null, PointGeom(<<5, 52, 0>>),
          Obj([type |-> Str("Circle")])}
    \cup {MkObj([type |-> Str(t), properties |-> g, geometry |-> PointGeom(<<6, 53, 10>>),
                 coordinates |-> NumArr(<<6, 53, 10>>)]) :
            t \in {"Feature", "Point"}, g \in GoodProps}

InputFiles ==
    {NoFile, Garbage}
    \cup OtherRoots
    \cup {Collection(p, fs) : p \in PropsOpts, fs \in {<<F_point>>, <<F_bad, F_point>>}}
    \cup {MkObj([type |-> Str("FeatureCollection"), properties |-> p]) : p \in GoodProps}
    \cup {Collection(p, fs) : p \in GoodProps, fs \in FixtureLists}
    \cup {Collection(TestProps, fs) : fs \in FeatureLists}

-----------------------------------------------------------------------------
(* The caller: files, the outcome of the last read of each path, the      *)
(* arguments and outcome of the last write to each output path, the model  *)
(* it holds, and what its streams have received                            *)

InPath == "in.geojson"
OutPaths == {"out1.geojson", "out2.geojson"}
Paths == {InPath} \cup OutPaths

NotRead == [t |-> "notread"]
NotWritten == [t |-> "notwritten"]

Flavors == {"WGS", "ENU"}

NoModel == [t |-> "nomodel"]
NoCall == [t |-> "nocall"]

\* the collections a caller fills in memory, as the writer tests do: one
\* feature of every stored variant, and the four variants together
BuiltDatum == Datum(52, 5, 0)
BuiltHeading == Euler(1, 2, 45)
P1 == toENU(WGS(53, 6, 10), BuiltDatum)
P2 == toENU(WGS(54, 7, 0), BuiltDatum)
P3 == toENU(WGS(52, 7, 0), BuiltDatum)

BuiltGeometries ==
    {GPoint(P1), GLine(P1, P2), GPath(<<>>), GPath(<<P1>>), GPath(<<P1, P2>>),
     GPath(<<P1, P2, P3>>), GPolygon(<<P1, P2, P3, P1>>)}

BuiltFeatureLists ==
    {<<>>}
    \cup {<<Feature(g, [name |-> "test"])>> : g \in BuiltGeometries}
    \cup {<<Feature(GPoint(P1), [name |-> "test_point", category |-> "landmark"]),
            Feature(GLine(P1, P2), [name |-> "test_line"]),
            Feature(GPath(<<P1, P2, P3>>), [name |-> "test_path"]),
            Feature(GPolygon(<<P1, P2, P3, P1>>), [name |-> "test_polygon"])>>,
          <<Feature(GPoint(P1), [name |-> "{\"a\":1}", category |-> "true",
                                 id |-> "[1,2,3]", type |-> "42",
                                 heading |-> "", crs |-> "null"]),
            Feature(GPoint(P2), <<>>)>>}

BuiltModels ==
    {FeatureCollection(c, BuiltDatum, BuiltHeading, fs) :
        c \in Flavors, fs \in BuiltFeatureLists}

Init ==
    /\ \E d \in InputFiles :
        disk = [p \in Paths |-> IF p = InPath THEN d ELSE NoFile]
    /\ rd = [p \in Paths |-> NotRead]
    /\ wrote = [p \in OutPaths |-> NotWritten]
    /\ built = NoModel
    /\ call = NoCall
    /\ streams = [s \in Streams |-> <<>>]

\* the model the caller holds: the one it built in memory, or else the one
\* read from the input path
HasModel == built # NoModel \/ (rd[InPath] # NotRead /\ rd[InPath].res.ok)
fc == IF built # NoModel THEN built ELSE rd[InPath].res.v

\* a caller without an input file fills a FeatureCollection in memory
Build(m) ==
    /\ built = NoModel
    /\ disk[InPath] = NoFile
    /\ built' = m
    /\ UNCHANGED <<disk, rd, wrote, call, streams>>

\* geoson::read(path)
Read(p) ==
    /\ rd' = [rd EXCEPT ![p] =
                [j |-> disk[p],
                 via |-> IF p \in OutPaths THEN wrote[p] ELSE NotWritten,
                 fc_json |-> op_ReadFeatureCollection(disk[p]),
                 hdr |-> Bind(op_ReadFeatureCollection(disk[p]), resolveHeader),
                 res |-> ReadFeatureCollection(disk[p])]]
    /\ UNCHANGED <<disk, wrote, built, call, streams>>

\* geoson::write(fc, path)
Write(p) ==
    /\ HasModel
    /\ disk' = IF WriteFeatureCollection(fc, p).ok
               THEN [disk EXCEPT ![p] = WriteFeatureCollection(fc, p).v]
               ELSE disk
    /\ wrote' = [wrote EXCEPT ![p] = [fc |-> fc, flavor |-> "default",
                                      res |-> WriteFeatureCollection(fc, p)]]
    /\ UNCHANGED <<rd, built, call, streams>>

\* geoson::write(fc, path, outputCrs)
WriteCrs(p, F) ==
    /\ HasModel
    /\ disk' = [disk EXCEPT ![p] = WriteFeatureCollectionCrs(fc, F)]
    /\ wrote' = [wrote EXCEPT ![p] = [fc |-> fc, flavor |-> F,
                                      res |-> OK(WriteFeatureCollectionCrs(fc, F))]]
    /\ UNCHANGED <<rd, built, call, streams>>

Next ==
    \/ \E p \in Paths : Read(p)
    \/ \E p \in OutPaths : Write(p)
    \/ \E p \in OutPaths, F \in Flavors : WriteCrs(p, F)
    \/ \E m \in BuiltModels : Build(m)

Spec == Init /\ [][Next]_vars

-----------------------------------------------------------------------------
(* The decoder called piece by piece, as the parser tests call it, and the *)
(* loader on documents that exercise every branch of the geometry decoder  *)

MaxCoords == 4
MaxTuples == 3
MaxRings == 2
MaxSubs == 2

TestDatum == Datum(52, 5, 0)

SeqsUpTo(S, n) == UNION {[1..k -> S] : k \in 0..n}

\* coordinate arrays: numbers, a string and a boolean at every index
CoordElems == {Num(6), Num(53), Str("invalid"), Bool(TRUE)}
CoordInputs ==
    {Arr(cs) : cs \in SeqsUpTo(CoordElems, MaxCoords)}
    \cup {Null, Num(5), Str("invalid"), Obj([name |-> Num(1)]),
          Arr(<<Num(6), Num(53), Null>>), Arr(<<Num(6), Num(53), Num(10), Null>>)}

\* coordinate tuples: three that decode, two that do not
GoodTuples == {NumArr(<<6, 53, 10>>), NumArr(<<7, 54>>), NumArr(<<5, 52, 0>>)}
BadTuples == {NumArr(<<5>>), Arr(<<Str("invalid"), Num(52)>>)}
LineInputs ==
    {Arr(ts) : ts \in SeqsUpTo(GoodTuples \cup BadTuples, MaxTuples)}

\* rings: well-formed ones, and ones that cannot be decoded
GoodRings ==
    {Arr(<<>>), Arr(<<NumArr(<<6, 53, 10>>), NumArr(<<7, 54>>)>>),
     Arr(<<NumArr(<<5, 52, 0>>), NumArr(<<6, 52, 0>>), NumArr(<<6, 53, 0>>),
           NumArr(<<5, 52, 0>>)>>)}
BadRings == {Str("hole"), Arr(<<NumArr(<<5>>)>>), Arr(<<Str("invalid")>>)}
PolygonInputs ==
    {Arr(rs) : rs \in SeqsUpTo(GoodRings \cup BadRings, MaxRings)}

Geom(type, coordinates) ==
    MkObj([type |-> Str(type), coordinates |-> coordinates])

GeomCollection(subs) ==
    Obj([type |-> Str("GeometryCollection"), geometries |-> Arr(subs)])

\* geometries of a type the decoder does not know, with and without fields
UnknownGeoms ==
    {MkObj([type |-> Str(t), coordinates |-> c, geometries |-> g]) :
        t \in {"Circle", "point", "", "Feature"},
        c \in {Absent, NumArr(<<6, 53, 10>>), Str("invalid"), NumArr(<<5>>)},
        g \in {Absent, Num(1)}}

\* the members a GeometryCollection is made of: plain geometries, one of an
\* unknown type, one that cannot be decoded, nested collections
SubGeoms ==
    {PointGeom(<<6, 53, 10>>),
     Geom("LineString", Arr(<<NumArr(<<5, 52, 0>>), NumArr(<<6, 52, 0>>)>>)),
     Geom("MultiPoint", Arr(<<NumArr(<<5, 53>>), NumArr(<<4, 51, 1>>)>>)),
     Geom("Circle", NumArr(<<6, 53, 10>>)),
     PointGeom(<<5>>),
     GeomCollection(<<>>),
     GeomCollection(<<PointGeom(<<7, 54>>), Geom("Circle", Absent),
                      Geom("LineString", Arr(<<NumArr(<<5, 52, 0>>)>>))>>),
     GeomCollection(<<GeomCollection(<<GeomCollection(<<PointGeom(<<4, 51, 1>>)>>),
                                       PointGeom(<<5, 52, 0>>)>>)>>)}

GeomInputs ==
    {Geom("Point", c) : c \in GoodTuples \cup BadTuples \cup {Absent}}
    \cup {Geom("LineString", c) : c \in LineInputs}
    \cup {Geom("MultiPoint", c) : c \in LineInputs}
    \cup {Geom("Polygon", c) : c \in PolygonInputs}
    \cup {Geom("MultiLineString", Arr(ls)) :
            ls \in SeqsUpTo({Arr(<<>>), Arr(<<NumArr(<<6, 53, 10>>)>>),
                             Arr(<<NumArr(<<5, 52, 0>>), NumArr(<<6, 52, 0>>)>>)},
                            MaxSubs)}
    \cup {Geom("MultiPolygon", Arr(ps)) :
            ps \in SeqsUpTo({Arr(<<Arr(<<>>)>>),
                             Arr(<<Arr(<<NumArr(<<6, 53, 10>>), NumArr(<<7, 54>>)>>),
                                   Str("hole")>>)},
                            MaxSubs)}
    \cup {GeomCollection(subs) : subs \in SeqsUpTo(SubGeoms, MaxSubs)}
    \cup UnknownGeoms
    \cup {Obj([coordinates |-> NumArr(<<6, 53, 10>>)]),
          Obj([type |-> Num(1), coordinates |-> NumArr(<<6, 53, 10>>)]),
          Obj([type |-> Str("GeometryCollection")]), Null, Num(5)}

\* property objects, as the parser tests write them
PropertyValues ==
    {Absent, Str("test_name"), Str(""), Num(42), Bool(TRUE), Bool(FALSE), Null,
     NumArr(<<1, 2, 3>>), Arr(<<>>), Obj([name |-> Str("x"), id |-> Num(7)])}
PropertyInputs ==
    {MkObj([name |-> a, category |-> b, id |-> c]) :
        a \in PropertyValues, b \in PropertyValues, c \in {Absent, Num(42)}}

\* raw features for the loader: one geometry each, with and without properties
DecodeFeatures ==
    {RawFeature(g, Obj([name |-> Str("multi"), category |-> Num(42)])) :
        g \in {Geom("MultiPoint", Arr(<<NumArr(<<5, 53>>), NumArr(<<4, 51, 1>>),
                                        NumArr(<<6, 53, 10>>)>>)),
               Geom("MultiPoint", Arr(<<>>)),
               Geom("MultiLineString",
                    Arr(<<Arr(<<NumArr(<<5, 52, 0>>), NumArr(<<6, 52, 0>>)>>),
                          Arr(<<NumArr(<<6, 53, 10>>)>>)>>)),
               Geom("MultiPolygon",
                    Arr(<<Arr(<<Arr(<<NumArr(<<6, 53, 10>>), NumArr(<<7, 54>>)>>)>>),
                          Arr(<<Arr(<<>>)>>)>>)),
               GeomCollection(<<PointGeom(<<7, 54>>), Geom("Circle", Absent),
                                Geom("LineString", Arr(<<NumArr(<<5, 52, 0>>)>>))>>),
               Geom("Circle", Str("invalid")),
               Geom("point", NumArr(<<6, 53, 10>>)),
               PointGeom(<<5>>),
               Geom("Point", Arr(<<Str("invalid"), Num(52)>>)),
               Geom("LineString", Arr(<<NumArr(<<5, 52, 0>>), NumArr(<<5>>)>>)),
               Geom("Polygon", Arr(<<>>))}}
    \cup {F_point, F_point2, F_null}

DecodeFiles ==
    {Collection(TestProps, fs) : fs \in SeqsUpTo(DecodeFeatures, MaxFeatures)}

InitDecode ==
    /\ \E d \in DecodeFiles \cup {NoFile} :
        disk = [p \in Paths |-> IF p = InPath THEN d ELSE NoFile]
    /\ rd = [p \in Paths |-> NotRead]
    /\ wrote = [p \in OutPaths |-> NotWritten]
    /\ built = NoModel
    /\ call = NoCall
    /\ streams = [s \in Streams |-> <<>>]

\* a caller that has no file calls one decoder function
CanCall == disk[InPath] = NoFile /\ call = NoCall

CallParsePoint(coords) ==
    /\ CanCall
    /\ call' = [fn |-> "parsePoint", arg |-> coords,
                out |-> parsePoint(coords, TestDatum)]
    /\ UNCHANGED <<disk, rd, wrote, built, streams>>

CallParseLineString(coords) ==
    /\ CanCall
    /\ call' = [fn |-> "parseLineString", arg |-> coords,
                out |-> parseLineString(coords, TestDatum)]
    /\ UNCHANGED <<disk, rd, wrote, built, streams>>

CallParsePolygon(coords) ==
    /\ CanCall
    /\ call' = [fn |-> "parsePolygon", arg |-> coords,
                out |-> parsePolygon(coords, TestDatum)]
    /\ UNCHANGED <<disk, rd, wrote, built, streams>>

CallParseGeometry(geom) ==
    /\ CanCall
    /\ call' = [fn |-> "parseGeometry", arg |-> geom,
                out |-> parseGeometry(geom, TestDatum)]
    /\ UNCHANGED <<disk, rd, wrote, built, streams>>

CallParseProperties(props) ==
    /\ CanCall
    /\ call' = [fn |-> "parseProperties", arg |-> props,
                out |-> parseProperties(props)]
    /\ UNCHANGED <<disk, rd, wrote, built, streams>>

NextDecode ==
    \/ Read(InPath)
    \/ \E c \in CoordInputs : CallParsePoint(c)
    \/ \E c \in LineInputs : CallParseLineString(c)
    \/ \E c \in PolygonInputs : CallParsePolygon(c)
    \/ \E g \in GeomInputs : CallParseGeometry(g)
    \/ \E P \in PropertyInputs : CallParseProperties(P)

SpecDecode == InitDecode /\ [][NextDecode]_vars

-----------------------------------------------------------------------------
(* The example program: read, print, edit the datum, write, and the calls  *)
(* of the tests on a path that cannot be opened                            *)

DatumShift == 5

MainOut == "out1.geojson"

MainFiles == {Collection(p, fs) : p \in GoodProps, fs \in FixtureLists}

InitMain ==
    /\ \E d \in MainFiles \cup {NoFile} :
        disk = [p \in Paths \cup Unwritable |-> IF p = InPath THEN d ELSE NoFile]
    /\ rd = [p \in Paths |-> NotRead]
    /\ wrote = [p \in OutPaths \cup Unwritable |-> NotWritten]
    /\ built = NoModel
    /\ call = NoCall
    /\ streams = [s \in Streams |-> <<>>]

\* fc.datum.lat += 5.1 on the model a read returned
EditDatum ==
    /\ built = NoModel
    /\ rd[InPath] # NotRead /\ rd[InPath].res.ok
    /\ built' = [rd[InPath].res.v EXCEPT !.datum.lat = @ + DatumShift]
    /\ UNCHANGED <<disk, rd, wrote, call, streams>>

\* os << fc, once, on a stream nothing was written to
Output(os) ==
    /\ HasModel
    /\ call = NoCall
    /\ streams' = operator_shl(os, fc, streams)
    /\ call' = [fn |-> "operator<<", arg |-> fc, out |-> os]
    /\ UNCHANGED <<disk, rd, wrote, built>>

NextMain ==
    \/ \E p \in {InPath, MainOut} : Read(p)
    \/ \E p \in {MainOut} \cup Unwritable : Write(p)
    \/ \E F \in Flavors : WriteCrs(MainOut, F)
    \/ \E m \in BuiltModels : Build(m)
    \/ EditDatum
    \/ \E os \in Streams : Output(os)

SpecMain == InitMain /\ [][NextMain]_vars

-----------------------------------------------------------------------------
(* Vocabulary of the properties                                            *)

WasRead(p) == rd[p] # NotRead

\* the last read of p read a file that a write of this caller produced
ReadBack(p) == p \in OutPaths /\ WasRead(p) /\ rd[p].via # NotWritten

\* the flavor a write call asked for
FlavorOf(w) == IF w.flavor = "default" THEN w.fc.crs ELSE w.flavor

\* the stored local coordinates of a model, feature by feature, point by point
LocalCoords(m) == [i \in 1..Len(m.features) |-> m.features[i].geometry.pts]

\* the coordinate tuples of a written geometry object, in order
TuplesOf(geometry) ==
    LET cs == geometry.o["coordinates"]
    IN  IF geometry.o["type"].s = "Point" THEN <<cs>>
        ELSE IF geometry.o["type"].s = "LineString" THEN cs.a
        ELSE cs.a[1].a

NumsOf(tuple) == [i \in 1..Len(tuple.a) |-> tuple.a[i].n]

\* a written tuple t expresses the stored point pt in flavor F
Expresses(t, pt, F, datum) ==
    /\ Len(t) = 3
    /\ IF F = "ENU" THEN t = <<pt.x, pt.y, pt.z>>
       ELSE toENU(WGS(t[2], t[1], t[3]), datum) = pt

\* the parsed root of the file the last read of p opened
Parsed(p) == WasRead(p) /\ rd[p].j \notin {NoFile, Garbage}

HasStringType(j) == j.t = "obj" /\ "type" \in DOMAIN j.o /\ j.o["type"].t = "str"

IsCollectionRoot(j) == HasStringType(j) /\ j.o["type"].s = "FeatureCollection"

\* the header defects of a document
NoPropertiesObject(j) ==
    "properties" \notin DOMAIN j.o \/ j.o["properties"].t # "obj"
CrsDefect(P) == "crs" \notin DOMAIN P.o \/ P.o["crs"].t # "str"
DatumDefect(P) ==
    \/ "datum" \notin DOMAIN P.o
    \/ P.o["datum"].t # "arr"
    \/ Len(P.o["datum"].a) < 3
HeadingDefect(P) == "heading" \notin DOMAIN P.o \/ P.o["heading"].t # "num"

WgsNames == {"EPSG:4326", "WGS84", "WGS"}
EnuNames == {"ENU", "ECEF"}

Failure(what) == [ok |-> FALSE, kind |-> "std::runtime_error", what |-> what]

-----------------------------------------------------------------------------
(* C1  Round trip within frame: a model obtained by read, written in ENU   *)
(* flavor and read again, has the stored local coordinates of the model    *)
(* that was written.                                                       *)
C1_RoundTripWithinFrame ==
    \A p \in OutPaths :
        (ReadBack(p) /\ FlavorOf(rd[p].via) = "ENU") =>
            /\ rd[p].res.ok
            /\ LocalCoords(rd[p].res.v) = LocalCoords(rd[p].via.fc)

(* C2  Cross-flavor equivalence: the same model written once as WGS and    *)
(* once as ENU, each read back, gives equal stored local coordinates, with *)
(* frame tags WGS and ENU.                                                 *)
C2_CrossFlavorEquivalence ==
    \A p, q \in OutPaths :
        (/\ ReadBack(p) /\ ReadBack(q)
         /\ rd[p].via.fc = rd[q].via.fc
         /\ FlavorOf(rd[p].via) = "WGS" /\ FlavorOf(rd[q].via) = "ENU") =>
            /\ rd[p].res.ok /\ rd[q].res.ok
            /\ rd[p].res.v.crs = "WGS" /\ rd[q].res.v.crs = "ENU"
            /\ LocalCoords(rd[p].res.v) = LocalCoords(rd[q].res.v)

(* C3  A write with an explicit flavor F leaves a document whose crs is    *)
(* the canonical string of F and whose coordinates are expressed in F,     *)
(* whatever the tag of the model; a write without a flavor leaves the      *)
(* document that a write with the model's own tag leaves.                  *)
C3_WriteInRequestedFlavor ==
    \A p \in OutPaths :
        wrote[p] # NotWritten =>
            LET m == wrote[p].fc
                F == FlavorOf(wrote[p])
                doc == disk[p]
            IN  /\ doc.o["properties"].o["crs"]
                       = Str(IF F = "WGS" THEN "EPSG:4326" ELSE "ENU")
                /\ Len(doc.o["features"].a) = Len(m.features)
                /\ \A i \in 1..Len(m.features) :
                    LET ts == TuplesOf(doc.o["features"].a[i].o["geometry"])
                        pts == m.features[i].geometry.pts
                    IN  /\ Len(ts) = Len(pts)
                        /\ \A k \in 1..Len(pts) :
                            Expresses(NumsOf(ts[k]), pts[k], F, m.datum)
                /\ wrote[p].flavor = "default" =>
                       doc = WriteFeatureCollectionCrs(m, m.crs)

C3_Witness ==
    \E p, q \in OutPaths :
        /\ wrote[p] # NotWritten /\ wrote[q] # NotWritten
        /\ wrote[p].flavor = "ENU" /\ wrote[p].fc.crs = "WGS"
        /\ wrote[q].flavor = "default"
        /\ Len(wrote[p].fc.features) = 2

(* C4  parseCRS maps exactly EPSG:4326, WGS84, WGS to the tag WGS and      *)
(* exactly ENU, ECEF to the tag ENU; any other string, the empty string    *)
(* and case variants included, fails with "Unknown CRS string: " followed  *)
(* by the string.                                                          *)
C4_ParseCRS ==
    \A p \in Paths :
        (/\ Parsed(p) /\ IsCollectionRoot(rd[p].j)
         /\ ~NoPropertiesObject(rd[p].j)
         /\ ~CrsDefect(rd[p].j.o["properties"])
         /\ ~DatumDefect(rd[p].j.o["properties"])
         /\ ~HeadingDefect(rd[p].j.o["properties"])) =>
            LET s == rd[p].j.o["properties"].o["crs"].s
                unknown == Failure("Unknown CRS string: " \o s)
            IN  /\ s \in WgsNames =>
                    /\ rd[p].res # unknown
                    /\ rd[p].hdr.ok => rd[p].hdr.v.crs = "WGS"
                    /\ rd[p].res.ok => rd[p].res.v.crs = "WGS"
                /\ s \in EnuNames =>
                    /\ rd[p].res # unknown
                    /\ rd[p].hdr.ok => rd[p].hdr.v.crs = "ENU"
                    /\ rd[p].res.ok => rd[p].res.v.crs = "ENU"
                /\ s \notin WgsNames \cup EnuNames =>
                    /\ rd[p].res = unknown
                    /\ rd[p].hdr = unknown
                /\ s = "epsg:4326" =>
                    rd[p].res.what = "Unknown CRS string: epsg:4326"
                /\ s = "" => rd[p].res.what = "Unknown CRS string: "

C4_Witness ==
    /\ Parsed(InPath) /\ IsCollectionRoot(rd[InPath].j)
    /\ ~NoPropertiesObject(rd[InPath].j)
    /\ rd[InPath].j.o["properties"]
         = Obj([crs |-> Str("enu"), datum |-> NumArr(<<52, 5, 0>>),
                heading |-> Num(45)])
    /\ ~rd[InPath].res.ok

(* C5  A FeatureCollection document with exactly one header defect fails   *)
(* with the message of that defect (properties / crs / datum / heading);   *)
(* a document with none of them and a recognized crs does not fail in      *)
(* header resolution.                                                      *)
C5_HeaderDefectMessages ==
    \A p \in Paths :
        (Parsed(p) /\ IsCollectionRoot(rd[p].j)) =>
            IF NoPropertiesObject(rd[p].j)
            THEN rd[p].res = Failure("missing top-level 'properties'")
            ELSE LET P == rd[p].j.o["properties"]
                     only(a, b, c) == a /\ ~b /\ ~c
                 IN  /\ only(CrsDefect(P), DatumDefect(P), HeadingDefect(P)) =>
                         rd[p].res = Failure("'properties' missing string 'crs'")
                     /\ only(DatumDefect(P), CrsDefect(P), HeadingDefect(P)) =>
                         rd[p].res = Failure(
                             "'properties' missing array 'datum' of >=3 numbers")
                     /\ only(HeadingDefect(P), CrsDefect(P), DatumDefect(P)) =>
                         rd[p].res = Failure(
                             "'properties' missing numeric 'heading'")
                     /\ (/\ ~CrsDefect(P) /\ ~DatumDefect(P) /\ ~HeadingDefect(P)
                         /\ P.o["crs"].s \in WgsNames \cup EnuNames) =>
                         rd[p].hdr.ok

(* C6  A datum array of 3 or more elements whose first three are not all   *)
(* numbers makes read fail like a short or absent datum, with the message  *)
(* "'properties' missing array 'datum' of >=3 numbers".                    *)
C6_NonNumericDatumRejected ==
    \A p \in Paths :
        (/\ Parsed(p) /\ IsCollectionRoot(rd[p].j)
         /\ ~NoPropertiesObject(rd[p].j)
         /\ ~CrsDefect(rd[p].j.o["properties"])
         /\ rd[p].j.o["properties"].o["crs"].s \in WgsNames \cup EnuNames
         /\ ~DatumDefect(rd[p].j.o["properties"])
         /\ ~HeadingDefect(rd[p].j.o["properties"])
         /\ \E i \in 1..3 : rd[p].j.o["properties"].o["datum"].a[i].t # "num") =>
            rd[p].res = Failure("'properties' missing array 'datum' of >=3 numbers")

(* C7  A root that is not an object, has no type, or has a type that is    *)
(* not a string fails with the "no string 'type' field" message, whatever  *)
(* header and features the document holds.                                 *)
C7_RootWithoutStringType ==
    \A p \in Paths :
        (Parsed(p) /\ ~HasStringType(rd[p].j)) =>
            /\ rd[p].res = Failure(
                "geoson::ReadFeatureCollection(): top-level object has no string 'type' field")
            /\ rd[p].fc_json = rd[p].res
            /\ rd[p].hdr = rd[p].res

C7_Witness ==
    /\ Parsed(InPath)
    /\ rd[InPath].j.t = "obj"
    /\ "type" \in DOMAIN rd[InPath].j.o /\ rd[InPath].j.o["type"] = Num(123)
    /\ "properties" \in DOMAIN rd[InPath].j.o
    /\ rd[InPath].j.o["features"] = Arr(<<F_point>>)
    /\ ~rd[InPath].res.ok

(* C8  The normalizer always returns a FeatureCollection: a collection     *)
(* root unchanged, a Feature root as the only element of features, any     *)
(* other root as the geometry of a Feature with empty properties that is   *)
(* the only element of features.                                           *)
C8_Normalizer ==
    \A p \in Paths :
        (Parsed(p) /\ HasStringType(rd[p].j)) =>
            LET j == rd[p].j
                n == rd[p].fc_json
            IN  /\ n.ok
                /\ n.v.t = "obj"
                /\ n.v.o["type"] = Str("FeatureCollection")
                /\ j.o["type"].s = "FeatureCollection" => n.v = j
                /\ j.o["type"].s = "Feature" =>
                    /\ DOMAIN n.v.o = {"type", "features"}
                    /\ n.v.o["features"] = Arr(<<j>>)
                /\ j.o["type"].s \notin {"FeatureCollection", "Feature"} =>
                    /\ DOMAIN n.v.o = {"type", "features"}
                    /\ n.v.o["features"].t = "arr"
                    /\ Len(n.v.o["features"].a) = 1
                    /\ n.v.o["features"].a[1].t = "obj"
                    /\ DOMAIN n.v.o["features"].a[1].o
                           = {"type", "geometry", "properties"}
                    /\ n.v.o["features"].a[1].o["type"] = Str("Feature")
                    /\ n.v.o["features"].a[1].o["geometry"] = j
                    /\ n.v.o["features"].a[1].o["properties"] = Obj(<<>>)

C8_Witness ==
    /\ Parsed(InPath)
    /\ rd[InPath].j = PointGeom(<<5, 52, 0>>)
    /\ rd[InPath].fc_json.ok

(* C9  A bare geometry or single Feature root without top-level            *)
(* properties is normalized and then fails header resolution with          *)
(* "missing top-level 'properties'".                                       *)
C9_WrappedRootFailsInHeader ==
    \A p \in Paths :
        (/\ Parsed(p) /\ HasStringType(rd[p].j)
         /\ rd[p].j.o["type"].s # "FeatureCollection"
         /\ "properties" \notin DOMAIN rd[p].j.o) =>
            /\ rd[p].fc_json.ok
            /\ rd[p].hdr = Failure("missing top-level 'properties'")
            /\ rd[p].res = Failure("missing top-level 'properties'")

C9_Witness ==
    /\ Parsed(InPath)
    /\ rd[InPath].j \in {PointGeom(<<5, 52, 0>>), F_point2}
    /\ rd[InPath].res = Failure("missing top-level 'properties'")

(* C10  A raw feature whose geometry is null or absent adds no Feature     *)
(* and raises no error: the read gives what it gives for the document      *)
(* without those features, the others in their order.                      *)
NoGeometry(feat) ==
    "geometry" \notin DOMAIN feat.o \/ feat.o["geometry"] = Null

WithFeatures(j, feats) == Obj([j.o EXCEPT !["features"] = Arr(feats)])

C10_NullGeometrySkipped ==
    \A p \in Paths :
        (/\ Parsed(p) /\ IsCollectionRoot(rd[p].j)
         /\ "features" \in DOMAIN rd[p].j.o
         /\ rd[p].hdr.ok) =>
            LET feats == rd[p].j.o["features"].a
                kept == SelectSeq(feats, LAMBDA f : ~NoGeometry(f))
            IN  /\ rd[p].res = ReadFeatureCollection(WithFeatures(rd[p].j, kept))
                /\ kept = <<>> =>
                    /\ rd[p].res.ok
                    /\ rd[p].res.v.features = <<>>

C10_Witness ==
    /\ Parsed(InPath) /\ IsCollectionRoot(rd[InPath].j)
    /\ "features" \in DOMAIN rd[InPath].j.o
    /\ rd[InPath].j.o["features"] = Arr(<<F_null, F_point>>)
    /\ rd[InPath].res.ok
    /\ Len(rd[InPath].res.v.features) = 1
    /\ rd[InPath].res.v.features[1].properties["name"] = "valid_point"

-----------------------------------------------------------------------------
(* Vocabulary of the decoder properties                                    *)

Calls(fn) == call # NoCall /\ call.fn = fn

IsNumber(j) == j.t = "num"

\* the point a tuple of numbers [lon, lat] or [lon, lat, alt, ...] stands for
DecodedPoint(t, datum) ==
    toENU(WGS(t.a[2].n, t.a[1].n, IF Len(t.a) > 2 THEN t.a[3].n ELSE 0), datum)

\* a coordinate tuple the decoder is specified to accept
WellFormedTuple(t) ==
    /\ t.t = "arr" /\ Len(t.a) >= 2
    /\ \A i \in 1..Len(t.a) : i <= 3 => IsNumber(t.a[i])

TuplesArray(cs) == cs.t = "arr" /\ \A i \in 1..Len(cs.a) : WellFormedTuple(cs.a[i])

DecodedPoints(cs, datum) == [i \in 1..Len(cs.a) |-> DecodedPoint(cs.a[i], datum)]

(* C11  A LineString coordinate array decodes to a Line exactly when it    *)
(* has 2 tuples; with any other count, 0 and 1 included, it decodes        *)
(* without error to a Path; either way the variant holds the decoded       *)
(* points in order.                                                        *)
C11_LineStringDispatch ==
    (Calls("parseLineString") /\ TuplesArray(call.arg)) =>
        /\ call.out.ok
        /\ call.out.v.kind = "Line" <=> Len(call.arg.a) = 2
        /\ call.out.v.kind = "Path" <=> Len(call.arg.a) # 2
        /\ call.out.v.pts = DecodedPoints(call.arg, TestDatum)

C11_Witness ==
    /\ Calls("parseLineString") /\ TuplesArray(call.arg)
    /\ Len(call.arg.a) = 1
    /\ call.out.ok /\ call.out.v.kind = "Path" /\ Len(call.out.v.pts) = 1

\* the sum of the first i - 1 numbers of ns
RECURSIVE Offset(_, _)
Offset(ns, i) == IF i <= 1 THEN 0 ELSE Offset(ns, i - 1) + ns[i - 1]

\* the mapped properties of a raw feature
MappedProperties(feat) ==
    parseProperties(IF "properties" \in DOMAIN feat.o THEN feat.o["properties"]
                    ELSE EmptyObj)

\* the variants the geometry of a raw feature decodes to
VariantsOf(feat, datum) ==
    IF NoGeometry(feat) THEN <<>>
    ELSE parseGeometry(feat.o["geometry"], datum).v

MultiTypes == {"MultiPoint", "MultiLineString", "MultiPolygon"}

(* C12  Fan-out: a raw feature whose geometry decodes to N variants adds   *)
(* exactly N consecutive Features, in member order, each with the mapped   *)
(* properties of the raw feature; N = 0 adds none; a Multi* geometry of N  *)
(* members decodes to N variants.                                          *)
C12_FanOut ==
    \A p \in Paths :
        (/\ Parsed(p) /\ IsCollectionRoot(rd[p].j)
         /\ "features" \in DOMAIN rd[p].j.o /\ rd[p].j.o["features"].t = "arr"
         /\ rd[p].res.ok) =>
            LET feats == rd[p].j.o["features"].a
                d == rd[p].res.v.datum
                ns == [i \in 1..Len(feats) |-> Len(VariantsOf(feats[i], d))]
                out == rd[p].res.v.features
            IN  /\ Len(out) = Offset(ns, Len(feats) + 1)
                /\ \A i \in 1..Len(feats) :
                    /\ \A k \in 1..ns[i] :
                        out[Offset(ns, i) + k]
                            = Feature(VariantsOf(feats[i], d)[k],
                                      MappedProperties(feats[i]))
                    /\ (/\ ~NoGeometry(feats[i])
                        /\ feats[i].o["geometry"].o["type"].s \in MultiTypes
                        /\ feats[i].o["geometry"].o["coordinates"].t = "arr") =>
                            ns[i] = Len(feats[i].o["geometry"].o["coordinates"].a)

C12_Witness ==
    /\ Parsed(InPath) /\ IsCollectionRoot(rd[InPath].j)
    /\ rd[InPath].res.ok
    /\ rd[InPath].j.o["features"]
         = Arr(<<RawFeature(Geom("MultiPoint",
                                 Arr(<<NumArr(<<5, 53>>), NumArr(<<4, 51, 1>>),
                                       NumArr(<<6, 53, 10>>)>>)),
                            Obj([name |-> Str("multi"), category |-> Num(42)])),
                 F_point>>)
    /\ Len(rd[InPath].res.v.features) = 4
    /\ rd[InPath].res.v.features[3].properties["category"] = "42"

IsGeometryCollection(g) ==
    /\ g.t = "obj" /\ "type" \in DOMAIN g.o
    /\ g.o["type"] = Str("GeometryCollection")
    /\ "geometries" \in DOMAIN g.o /\ g.o["geometries"].t = "arr"

UnknownType(g) ==
    /\ g.t = "obj" /\ "type" \in DOMAIN g.o /\ g.o["type"].t = "str"
    /\ g.o["type"].s \notin GeometryTypes

(* C13  parseGeometry on a GeometryCollection returns the results of       *)
(* parseGeometry on its members, concatenated in the order of the          *)
(* geometries array, nested collections included; a member of an unknown   *)
(* type contributes nothing.                                               *)
C13_GeometryCollection ==
    (Calls("parseGeometry") /\ IsGeometryCollection(call.arg)) =>
        LET subs == call.arg.o["geometries"].a
            rs == [i \in 1..Len(subs) |-> parseGeometry(subs[i], TestDatum)]
            ns == [i \in 1..Len(subs) |-> IF rs[i].ok THEN Len(rs[i].v) ELSE 0]
        IN  /\ \A i \in 1..Len(subs) : UnknownType(subs[i]) => rs[i] = OK(<<>>)
            /\ (\A i \in 1..Len(subs) : rs[i].ok) =>
                /\ call.out.ok
                /\ Len(call.out.v) = Offset(ns, Len(subs) + 1)
                /\ \A i \in 1..Len(subs) : \A k \in 1..ns[i] :
                    call.out.v[Offset(ns, i) + k] = rs[i].v[k]

C13_Witness ==
    /\ Calls("parseGeometry")
    /\ call.arg = GeomCollection(<<
            GeomCollection(<<GeomCollection(<<GeomCollection(<<PointGeom(<<4, 51, 1>>)>>),
                                              PointGeom(<<5, 52, 0>>)>>)>>),
            GeomCollection(<<PointGeom(<<7, 54>>), Geom("Circle", Absent),
                             Geom("LineString", Arr(<<NumArr(<<5, 52, 0>>)>>))>>)>>)
    /\ call.out = OK(<<GPoint(toENU(WGS(51, 4, 1), TestDatum)),
                       GPoint(toENU(WGS(52, 5, 0), TestDatum)),
                       GPoint(toENU(WGS(54, 7, 0), TestDatum)),
                       GPath(<<toENU(WGS(52, 5, 0), TestDatum)>>)>>)

UnknownGeometry(feat) ==
    "geometry" \in DOMAIN feat.o /\ UnknownType(feat.o["geometry"])

(* C14  A geometry whose type is a string other than the seven known ones  *)
(* decodes to the empty sequence without error, whatever its other fields  *)
(* are; a read drops the features that hold such a geometry and gives what *)
(* it gives for the document without them.                                 *)
C14_UnknownTypeDropped ==
    /\ (Calls("parseGeometry") /\ UnknownType(call.arg)) => call.out = OK(<<>>)
    /\ \A p \in Paths :
        (/\ Parsed(p) /\ IsCollectionRoot(rd[p].j)
         /\ "features" \in DOMAIN rd[p].j.o /\ rd[p].j.o["features"].t = "arr"
         /\ rd[p].hdr.ok) =>
            LET feats == rd[p].j.o["features"].a
                kept == SelectSeq(feats, LAMBDA f : ~UnknownGeometry(f))
            IN  /\ rd[p].res = ReadFeatureCollection(WithFeatures(rd[p].j, kept))
                /\ kept = <<>> =>
                    /\ rd[p].res.ok
                    /\ rd[p].res.v.features = <<>>

C14_Witness ==
    /\ Parsed(InPath) /\ IsCollectionRoot(rd[InPath].j)
    /\ rd[InPath].j.o["features"]
         = Arr(<<RawFeature(Geom("Circle", Str("invalid")),
                            Obj([name |-> Str("multi"), category |-> Num(42)])),
                 F_point>>)
    /\ rd[InPath].res.ok
    /\ Len(rd[InPath].res.v.features) = 1
    /\ rd[InPath].res.v.features[1].properties["name"] = "valid_point"

(* C15  A Polygon decodes to exactly one Polygon variant whose points are  *)
(* those of coordinates[0], in order; the rings after the first neither    *)
(* change the result nor are validated; an empty coordinates array is an   *)
(* error.                                                                  *)
C15_PolygonFirstRing ==
    /\ (Calls("parsePolygon") /\ call.arg.t = "arr") =>
        /\ Len(call.arg.a) = 0 =>
            /\ ~call.out.ok
            /\ call.out.kind = "json::out_of_range"
        /\ Len(call.arg.a) > 0 =>
            /\ call.out = parsePolygon(Arr(<<call.arg.a[1]>>), TestDatum)
            /\ TuplesArray(call.arg.a[1]) =>
                call.out = OK(GPolygon(DecodedPoints(call.arg.a[1], TestDatum)))
    /\ (/\ Calls("parseGeometry") /\ call.arg.t = "obj"
        /\ "type" \in DOMAIN call.arg.o /\ call.arg.o["type"] = Str("Polygon")
        /\ "coordinates" \in DOMAIN call.arg.o
        /\ call.arg.o["coordinates"].t = "arr"
        /\ Len(call.arg.o["coordinates"].a) > 0
        /\ TuplesArray(call.arg.o["coordinates"].a[1])) =>
            call.out = OK(<<GPolygon(DecodedPoints(call.arg.o["coordinates"].a[1],
                                                   TestDatum))>>)

C15_Witness ==
    /\ Calls("parsePolygon")
    /\ call.arg = Arr(<<Arr(<<NumArr(<<6, 53, 10>>), NumArr(<<7, 54>>)>>),
                        Arr(<<NumArr(<<5>>)>>)>>)
    /\ call.out.ok
    /\ call.out.v.kind = "Polygon"
    /\ Len(call.out.v.pts) = 2

\* the compact JSON text of the values the parser tests use
CompactText(v) ==
    CASE v = Num(42) -> "42"
      [] v = Bool(TRUE) -> "true"
      [] v = Bool(FALSE) -> "false"
      [] v = Null -> "null"
      [] v = NumArr(<<1, 2, 3>>) -> "[1,2,3]"
      [] v = Arr(<<>>) -> "[]"
      [] v = Obj([name |-> Str("x"), id |-> Num(7)]) -> "{\"id\":7,\"name\":\"x\"}"

(* C16  parseProperties returns a mapping with exactly the keys of the     *)
(* input object; a string value is kept verbatim, any other value becomes  *)
(* its compact JSON text.                                                  *)
C16_ParseProperties ==
    (Calls("parseProperties") /\ call.arg.t = "obj") =>
        /\ DOMAIN call.out = DOMAIN call.arg.o
        /\ \A k \in DOMAIN call.arg.o :
            IF call.arg.o[k].t = "str"
            THEN call.out[k] = call.arg.o[k].s
            ELSE call.out[k] = CompactText(call.arg.o[k])

C16_Witness ==
    /\ Calls("parseProperties")
    /\ call.arg = Obj([name |-> Str("test_name"), category |-> NumArr(<<1, 2, 3>>),
                       id |-> Num(42)])
    /\ call.out = [name |-> "test_name", category |-> "[1,2,3]", id |-> "42"]

(* C17  parsePoint succeeds exactly when the array has at least 2 elements *)
(* and elements 0, 1 and, if present, 2 are numbers; it then gives the     *)
(* point of longitude [0], latitude [1] and altitude [2] or 0, ignoring    *)
(* what follows; otherwise it fails with an out-of-range or a type error.  *)
C17_ParsePoint ==
    (Calls("parsePoint") /\ call.arg.t = "arr") =>
        /\ call.out.ok <=> WellFormedTuple(call.arg)
        /\ WellFormedTuple(call.arg) =>
            call.out.v = DecodedPoint(call.arg, TestDatum)
        /\ ~WellFormedTuple(call.arg) =>
            call.out.kind \in {"json::out_of_range", "json::type_error"}

C17_Witness ==
    /\ Calls("parsePoint")
    /\ call.arg = Arr(<<Num(6), Num(53), Num(6), Str("invalid")>>)
    /\ call.out = OK(toENU(WGS(53, 6, 6), TestDatum))

-----------------------------------------------------------------------------
(* Vocabulary of the encoder properties                                    *)

\* a write of the encoder of writter.hpp: the model's own tag is the flavor
Encoded(p) == wrote[p] # NotWritten /\ wrote[p].flavor = "default"

\* the last read of p read what the encoder wrote there
Decoded(p) == ReadBack(p) /\ rd[p].via.flavor = "default"

(* C18  Every document the encoder produces has type FeatureCollection     *)
(* and a properties object with exactly crs, datum and heading: crs is     *)
(* "EPSG:4326" for a WGS model and "ENU" for an ENU model, never a         *)
(* synonym; datum is the array [lat, lon, alt]; heading is the yaw; pitch  *)
(* and roll are not written.                                               *)
C18_EncoderHeader ==
    \A p \in OutPaths :
        Encoded(p) =>
            LET m == wrote[p].fc
                doc == disk[p]
            IN  /\ doc.t = "obj"
                /\ doc.o["type"] = Str("FeatureCollection")
                /\ doc.o["properties"].t = "obj"
                /\ DOMAIN doc.o["properties"].o = {"crs", "datum", "heading"}
                /\ m.crs = "WGS" => doc.o["properties"].o["crs"] = Str("EPSG:4326")
                /\ m.crs = "ENU" => doc.o["properties"].o["crs"] = Str("ENU")
                /\ doc.o["properties"].o["crs"].s \notin {"WGS84", "WGS", "ECEF"}
                /\ doc.o["properties"].o["datum"]
                       = Arr(<<Num(m.datum.lat), Num(m.datum.lon), Num(m.datum.alt)>>)
                /\ doc.o["properties"].o["heading"] = Num(m.heading.yaw)

C18_Witness ==
    \E p \in OutPaths :
        /\ Encoded(p)
        /\ wrote[p].fc.crs = "ENU"
        /\ wrote[p].fc.heading = Euler(1, 2, 45)
        /\ disk[p].o["properties"]
             = Obj([crs |-> Str("ENU"), datum |-> NumArr(<<52, 5, 0>>),
                    heading |-> Num(45)])

(* C19  Writing a model with its default flavor and reading the file again *)
(* succeeds and gives the same frame tag, the same datum, the same yaw and *)
(* the same number of features.                                            *)
C19_HeaderRoundTrip ==
    \A p \in OutPaths :
        Decoded(p) =>
            /\ rd[p].res.ok
            /\ rd[p].res.v.crs = rd[p].via.fc.crs
            /\ rd[p].res.v.datum = rd[p].via.fc.datum
            /\ rd[p].res.v.heading.yaw = rd[p].via.fc.heading.yaw
            /\ Len(rd[p].res.v.features) = Len(rd[p].via.fc.features)

C19_Witness ==
    \E p \in OutPaths :
        /\ Decoded(p)
        /\ rd[p].via.fc.heading = Euler(1, 2, 45)
        /\ Len(rd[p].via.fc.features) = 4
        /\ rd[p].res.ok
        /\ rd[p].res.v.heading = Euler(0, 0, 45)
        /\ Len(rd[p].res.v.features) = 4

(* C20  After write and read the feature at every index holds the same     *)
(* geometry variant with the same number of points as before the write,    *)
(* for every stored variant, a Path of 2 points or fewer included.         *)
C20_VariantRoundTrip ==
    \A p \in OutPaths :
        Decoded(p) =>
            /\ rd[p].res.ok
            /\ Len(rd[p].res.v.features) = Len(rd[p].via.fc.features)
            /\ \A i \in 1..Len(rd[p].via.fc.features) :
                /\ rd[p].res.v.features[i].geometry.kind
                       = rd[p].via.fc.features[i].geometry.kind
                /\ Len(rd[p].res.v.features[i].geometry.pts)
                       = Len(rd[p].via.fc.features[i].geometry.pts)

-----------------------------------------------------------------------------
(* Vocabulary of the properties of the example program                     *)

(* C21  After os << fc the stream os holds the whole summary of fc: frame  *)
(* tag, datum, heading, feature count, and for every feature a line naming *)
(* its kind and, when it has properties, a line with their count; no other *)
(* stream has received anything.                                           *)
C21_StreamOperator ==
    Calls("operator<<") =>
        LET m == call.arg
            KindName(g) ==
                IF g.kind = "Point" THEN "   POINT"
                ELSE IF g.kind = "Line" THEN "  LINE"
                ELSE IF g.kind = "Path" THEN "  PATH"
                ELSE "  POLYGON"
            PropsLine(f) ==
                IF DOMAIN f.properties = {} THEN <<>>
                ELSE <<"    PROPS:" \o ToString(Cardinality(DOMAIN f.properties))>>
            Summary ==
                <<"CRS: " \o m.crs,
                  "DATUM: " \o ToString(m.datum.lat) \o ", "
                      \o ToString(m.datum.lon) \o ", " \o ToString(m.datum.alt),
                  "HEADING: " \o ToString(m.heading.yaw),
                  "FEATURES: " \o ToString(Len(m.features))>>
                \o Flatten([i \in 1..Len(m.features) |->
                      <<KindName(m.features[i].geometry)>>
                      \o PropsLine(m.features[i])])
        IN  /\ streams[call.out] = Summary
            /\ \A s \in Streams \ {call.out} : streams[s] = <<>>

(* C22  A datum edit between a read and a write leaves the stored point    *)
(* coordinates of the model as they were; the document written afterwards  *)
(* carries the edited datum, and the geometry of every feature in it is    *)
(* the geometry a write of the model before the edit would have produced,  *)
(* in either flavor.                                                       *)
C22_DatumEdit ==
    \A p \in OutPaths :
        (/\ wrote[p] # NotWritten
         /\ rd[InPath] # NotRead /\ rd[InPath].res.ok
         /\ wrote[p].fc # rd[InPath].res.v) =>
            LET before == rd[InPath].res.v
                after == wrote[p].fc
                doc == disk[p]
                unedited ==
                    IF wrote[p].flavor = "default" THEN toJson(before)
                    ELSE WriteFeatureCollectionCrs(before, wrote[p].flavor)
            IN  /\ LocalCoords(after) = LocalCoords(before)
                /\ after.datum.lat = before.datum.lat + DatumShift
                /\ doc.o["properties"].o["datum"]
                       = Arr(<<Num(after.datum.lat), Num(after.datum.lon),
                               Num(after.datum.alt)>>)
                /\ Len(doc.o["features"].a) = Len(unedited.o["features"].a)
                /\ \A i \in 1..Len(doc.o["features"].a) :
                       doc.o["features"].a[i].o["geometry"]
                           = unedited.o["features"].a[i].o["geometry"]

(* C23  Every Feature decoded from a raw feature that has an id carries    *)
(* the JSON text of that id (a string id with its quotes); a Feature       *)
(* decoded from a raw feature without id carries none; no feature a write  *)
(* produces has an id.                                                     *)
C23_FeatureId ==
    /\ \A p \in Paths :
        (/\ Parsed(p) /\ IsCollectionRoot(rd[p].j)
         /\ "features" \in DOMAIN rd[p].j.o /\ rd[p].j.o["features"].t = "arr"
         /\ rd[p].res.ok) =>
            LET feats == rd[p].j.o["features"].a
                d == rd[p].res.v.datum
                ns == [i \in 1..Len(feats) |-> Len(VariantsOf(feats[i], d))]
                out == rd[p].res.v.features
            IN  \A i \in 1..Len(feats) : \A k \in 1..ns[i] :
                    IF "id" \in DOMAIN feats[i].o
                    THEN /\ "id" \in DOMAIN out[Offset(ns, i) + k]
                         /\ out[Offset(ns, i) + k].id = dump(feats[i].o["id"])
                    ELSE "id" \notin DOMAIN out[Offset(ns, i) + k]
    /\ \A p \in OutPaths :
        wrote[p] # NotWritten =>
            \A i \in 1..Len(disk[p].o["features"].a) :
                "id" \notin DOMAIN disk[p].o["features"].a[i].o

(* C24  A write to a path that cannot be opened fails with a message that  *)
(* starts with "Cannot open for write", leaves no file and leaves the      *)
(* model, the files and the results of earlier reads as they were; a read  *)
(* of a path that cannot be opened fails with the "cannot open" message    *)
(* and gives no model.                                                     *)
C24_IOErrors ==
    /\ [](/\ \A p \in Unwritable :
              /\ disk[p] = NoFile
              /\ wrote[p] # NotWritten =>
                  /\ ~wrote[p].res.ok
                  /\ wrote[p].res
                       = Failure("Cannot open for write: " \o p)
          /\ \A p \in Paths :
              (WasRead(p) /\ rd[p].j = NoFile) =>
                  /\ ~rd[p].res.ok
                  /\ rd[p].res
                       = Failure("geoson::ReadFeatureCollection(): cannot open"))
    /\ [][\A p \in Unwritable :
              wrote'[p] # wrote[p] =>
                  /\ wrote'[p].fc = fc
                  /\ fc' = fc
                  /\ disk' = disk /\ rd' = rd]_vars

C24_Witness ==
    \E p \in Unwritable :
        /\ wrote[p] # NotWritten
        /\ ~wrote[p].res.ok
        /\ Len(wrote[p].fc.features) = 4
        /\ WasRead(InPath) /\ ~rd[InPath].res.ok

-----------------------------------------------------------------------------
(* Properties of the loader as a whole                                     *)

(* C25  A FeatureCollection document with a header defect (no properties   *)
(* object, no string crs, no datum array of 3, no numeric heading, or a    *)
(* crs string that is not recognized) fails with the failure of its        *)
(* header, whatever its features hold: the read gives what it gives for    *)
(* the document without features, and no feature error is raised.          *)
C25_HeaderBeforeFeatures ==
    \A p \in Paths :
        (/\ Parsed(p) /\ IsCollectionRoot(rd[p].j)
         /\ "features" \in DOMAIN rd[p].j.o
         /\ \/ NoPropertiesObject(rd[p].j)
            \/ CrsDefect(rd[p].j.o["properties"])
            \/ DatumDefect(rd[p].j.o["properties"])
            \/ HeadingDefect(rd[p].j.o["properties"])
            \/ rd[p].j.o["properties"].o["crs"].s \notin WgsNames \cup EnuNames) =>
            /\ ~rd[p].res.ok
            /\ rd[p].res = rd[p].hdr
            /\ rd[p].res.kind = "std::runtime_error"
            /\ rd[p].res = ReadFeatureCollection(WithFeatures(rd[p].j, <<>>))

C25_Witness ==
    /\ Parsed(InPath) /\ IsCollectionRoot(rd[InPath].j)
    /\ "features" \in DOMAIN rd[InPath].j.o
    /\ rd[InPath].j.o["features"] = Arr(<<F_bad, F_point>>)
    /\ ~NoPropertiesObject(rd[InPath].j)
    /\ rd[InPath].j.o["properties"]
         = Obj([crs |-> Str("enu"), datum |-> NumArr(<<52, 5, 0>>),
                heading |-> Num(45)])
    /\ rd[InPath].res = Failure("Unknown CRS string: enu")

(* C26  When the geometry of any feature has a coordinate defect (a tuple  *)
(* that is too short or holds a non-number, a polygon without a first      *)
(* ring), the read fails with the error of the first such feature and      *)
(* gives no model, wherever the feature stands and whatever valid features *)
(* stand before and after it.                                              *)
C26_AllOrNothing ==
    \A p \in Paths :
        (/\ Parsed(p) /\ IsCollectionRoot(rd[p].j)
         /\ "features" \in DOMAIN rd[p].j.o /\ rd[p].j.o["features"].t = "arr"
         /\ rd[p].hdr.ok) =>
            LET feats == rd[p].j.o["features"].a
                BadTuples_(cs) ==
                    cs.t = "arr" /\ \E k \in 1..Len(cs.a) : ~WellFormedTuple(cs.a[k])
                Defect(g) ==
                    /\ "coordinates" \in DOMAIN g.o
                    /\ \/ g.o["type"].s = "Point"
                          /\ ~WellFormedTuple(g.o["coordinates"])
                       \/ g.o["type"].s \in {"LineString", "MultiPoint"}
                          /\ BadTuples_(g.o["coordinates"])
                       \/ g.o["type"].s = "Polygon"
                          /\ g.o["coordinates"].t = "arr"
                          /\ \/ g.o["coordinates"].a = <<>>
                             \/ BadTuples_(g.o["coordinates"].a[1])
                bad == {i \in 1..Len(feats) :
                            ~NoGeometry(feats[i]) /\ Defect(feats[i].o["geometry"])}
            IN  bad # {} =>
                    LET first == CHOOSE i \in bad : \A k \in bad : i <= k
                    IN  /\ ~rd[p].res.ok
                        /\ rd[p].res.kind \in {"json::out_of_range", "json::type_error"}
                        /\ rd[p].res
                             = parseGeometry(feats[first].o["geometry"],
                                             rd[p].hdr.v.datum)

C26_Witness ==
    /\ Parsed(InPath) /\ IsCollectionRoot(rd[InPath].j)
    /\ rd[InPath].hdr.ok
    /\ Len(rd[InPath].j.o["features"].a) = 2
    /\ rd[InPath].j.o["features"].a[1] = F_point
    /\ rd[InPath].j.o["features"].a[2].o["geometry"] = Geom("Polygon", Arr(<<>>))
    /\ rd[InPath].res = OutOfRange

C28_OnlyCollectionsRead ==
    \A p \in Paths :
        (/\ Parsed(p) /\ HasStringType(rd[p].j)
         /\ rd[p].j.o["type"].s # "FeatureCollection") =>
            /\ rd[p].fc_json.ok
            /\ "properties" \notin DOMAIN rd[p].fc_json.v.o
            /\ ~rd[p].res.ok
            /\ rd[p].res = Failure("missing top-level 'properties'")

C28_Witness ==
    /\ Parsed(InPath) /\ HasStringType(rd[InPath].j)
    /\ rd[InPath].j.o["type"] = Str("Feature")
    /\ "properties" \in DOMAIN rd[InPath].j.o
    /\ rd[InPath].j.o["properties"]
         = Obj([crs |-> Str("EPSG:4326"), datum |-> NumArr(<<52, 5, 0>>),
                heading |-> Num(45)])
    /\ rd[InPath].res = Failure("missing top-level 'properties'")

(* C29  Of several header defects the one reported is the first in the     *)
(* order: properties object, string crs, datum array of 3 elements or      *)
(* more, numeric heading, recognized crs string.  An unknown crs string is *)
(* reported only when the datum and heading checks pass; an absent datum   *)
(* or heading is reported rather than an unknown crs.                      *)
C29_HeaderDefectOrder ==
    \A p \in Paths :
        (Parsed(p) /\ IsCollectionRoot(rd[p].j)) =>
            LET j == rd[p].j
                P == j.o["properties"]
                UnknownCrs == P.o["crs"].s \notin WgsNames \cup EnuNames
            IN  /\ NoPropertiesObject(j) =>
                    rd[p].res = Failure("missing top-level 'properties'")
                /\ (~NoPropertiesObject(j) /\ CrsDefect(P)) =>
                    rd[p].res = Failure("'properties' missing string 'crs'")
                /\ (~NoPropertiesObject(j) /\ ~CrsDefect(P) /\ DatumDefect(P)) =>
                    rd[p].res = Failure(
                        "'properties' missing array 'datum' of >=3 numbers")
                /\ (/\ ~NoPropertiesObject(j) /\ ~CrsDefect(P) /\ ~DatumDefect(P)
                    /\ HeadingDefect(P)) =>
                    rd[p].res = Failure("'properties' missing numeric 'heading'")
                /\ (/\ ~NoPropertiesObject(j) /\ ~CrsDefect(P) /\ ~DatumDefect(P)
                    /\ ~HeadingDefect(P) /\ UnknownCrs) =>
                    rd[p].res = Failure("Unknown CRS string: " \o P.o["crs"].s)
                /\ (~NoPropertiesObject(j) /\ ~CrsDefect(P) /\ UnknownCrs) =>
                    (rd[p].res = Failure("Unknown CRS string: " \o P.o["crs"].s)
                        <=> (~DatumDefect(P) /\ ~HeadingDefect(P)))

C29_Witness ==
    /\ Parsed(InPath) /\ IsCollectionRoot(rd[InPath].j)
    /\ ~NoPropertiesObject(rd[InPath].j)
    /\ rd[InPath].j.o["properties"]
         = Obj([crs |-> Str("UNKNOWN:12345"), datum |-> NumArr(<<52, 5>>),
                heading |-> Str("invalid")])
    /\ rd[InPath].res
         = Failure("'properties' missing array 'datum' of >=3 numbers")

(* C30  The property mapping of every Feature survives write and read:     *)
(* every value is written as a JSON string and read back verbatim, so the  *)
(* mapping read equals the mapping written, also for values that are the   *)
(* JSON text of a number, a boolean, null, an array or an object.          *)
C30_PropertiesRoundTrip ==
    \A p \in OutPaths :
        Decoded(p) =>
            /\ rd[p].res.ok
            /\ Len(rd[p].res.v.features) = Len(rd[p].via.fc.features)
            /\ Len(rd[p].j.o["features"].a) = Len(rd[p].via.fc.features)
            /\ \A i \in 1..Len(rd[p].via.fc.features) :
                LET before == rd[p].via.fc.features[i].properties
                    written == rd[p].j.o["features"].a[i].o["properties"]
                IN  /\ written.t = "obj"
                    /\ DOMAIN written.o = DOMAIN before
                    /\ \A k \in DOMAIN before : written.o[k] = Str(before[k])
                    /\ rd[p].res.v.features[i].properties = before

C30_Witness ==
    \E p \in OutPaths :
        /\ Decoded(p)
        /\ rd[p].res.ok
        /\ Len(rd[p].via.fc.features) = 2
        /\ rd[p].via.fc.features[2].properties = <<>>
        /\ rd[p].res.v.features[2].properties = <<>>
        /\ DOMAIN rd[p].res.v.features[1].properties
             = {"name", "category", "id", "type", "heading", "crs"}
        /\ rd[p].res.v.features[1].properties["id"] = "[1,2,3]"
        /\ rd[p].res.v.features[1].properties["type"] = "42"
        /\ rd[p].res.v.features[1].properties["name"] = "{\"a\":1}"

====
